---- MODULE Spec2Model ----
(***************************************************************************)
(* Model of the dataset conversion pipeline:                               *)
(*   utils/images.py        convert_to_pil_image, numpy_to_pil,            *)
(*                          load_from_path                                 *)
(*   utils/validator.py     validate_task_data, validate_task_directory    *)
(*   scripts/download_dataset.py   lenient converter (main, batch loop,    *)
(*                                 process_sample)                         *)
(*   scripts/process_dataset.py    strict converter                        *)
(*   utils/upload_to_s3.py  transfer tool (main, upload, download)         *)
(*                                                                         *)
(* Python values are records [type, val]; val is always a sequence of      *)
(* strings so that values of different Python types stay comparable.       *)
(* A str is the sequence of its characters (a file name or a label is one  *)
(* token).  A dict is a TLA+ function from key strings to values.          *)
(***************************************************************************)
EXTENDS Integers, Sequences, FiniteSets, TLC

VARIABLES
    pc,          \* position of the running tool
    args,        \* parsed command line of the running tool
    fs,          \* local filesystem under the tool's directory: a set of entries
    loaded,      \* length of the dataset load_dataset returned
    dataset,     \* len(dataset) after the optional select()
    idx,         \* loop index of enumerate(dataset)
    successful,  \* counter of download_videothinkbench
    item,        \* the record handed to the last process_sample call
    ret,         \* outcome of the last process_sample call
    metadata,    \* metadata dict built by the last lenient process_sample
    task_dir,    \* task directory the last process_sample call wrote to
    stdout,      \* kind of the last line the tool printed
    calls,       \* task directory written by each direct process_sample call
    s3,          \* remote store: set of object keys
    files,       \* files / objects the transfer loop still has to handle
    uploaded,    \* counter of upload_directory_to_s3
    failed,      \* counter of upload_directory_to_s3
    downloaded,  \* counter of download_from_s3
    vin,         \* arguments of a validate_task_data call
    vout         \* its result

vars == <<pc, args, fs, loaded, dataset, idx, successful, item, ret, metadata,
          task_dir, stdout, calls, s3, files, uploaded, failed, downloaded, vin, vout>>

converterVars == <<loaded, dataset, idx, successful, item, ret, metadata,
                   task_dir, calls>>
transferVars  == <<s3, files, uploaded, failed, downloaded>>
validateVars  == <<vin, vout>>

----------------------------------------------------------------------------
(* Bounds of the model *)

MaxLen == 2          \* longest upstream dataset
MaxLimit == 3        \* largest --limit tried
MaxCalls == 2        \* direct process_sample calls in a row
MaxIdx == 1          \* largest index of a direct process_sample call
MaxFiles == 3        \* files / objects in a transfer
MaxPromptLen == 2    \* longest prompt handed to validate_task_data

----------------------------------------------------------------------------
(* Python values *)

None == [type |-> "NoneType", val |-> <<>>]
Str(s) == [type |-> "str", val |-> s]
PILImage(mode) == [type |-> "Image", val |-> <<mode>>]
Bytes == [type |-> "bytes", val |-> <<"b">>]
PySet == [type |-> "set", val |-> <<"x">>]
NdArray(shape) == [type |-> "ndarray", val |-> shape]
Dict(f) == [type |-> "dict", val |-> <<>>, items |-> f]
\* an exception propagating out of a call, in place of its value
Raised == [type |-> "raised", val |-> <<>>]

Whitespace == {" ", "\n"}

\* bool(v) for the values that occur
Truthy(v) ==
    CASE v.type = "NoneType" -> FALSE
      [] v.type = "str" -> v.val # <<>>
      [] v.type = "bytes" -> v.val # <<>>
      [] OTHER -> TRUE

\* a or b
Or(a, b) == IF Truthy(a) THEN a ELSE b

RECURSIVE lstrip(_)
lstrip(s) == IF s # <<>> /\ Head(s) \in Whitespace THEN lstrip(Tail(s)) ELSE s

RECURSIVE rstrip(_)
rstrip(s) ==
    IF s # <<>> /\ s[Len(s)] \in Whitespace
    THEN rstrip(SubSeq(s, 1, Len(s) - 1))
    ELSE s

\* str.strip()
strip(s) == rstrip(lstrip(s))

\* str(v)
str(v) == IF v.type = "str" THEN v ELSE Str(<<"<", v.type, ">">>)

\* item.get(k)
Get(d, k) == IF k \in DOMAIN d THEN d[k] ELSE None

----------------------------------------------------------------------------
(* utils/images.py *)

ExistingPaths == {<<"ok.png">>, <<"gray.png">>, <<"corrupt.png">>}
DecodablePaths == {<<"ok.png">>, <<"gray.png">>}
ModeOnDisk(p) == IF p = <<"gray.png">> THEN "L" ELSE "RGB"

\* img.convert(mode) if img.mode != mode else img
convert_mode(img, mode) == IF img.val[1] # mode THEN PILImage(mode) ELSE img

\* arr is <<dtype, dim_1, ..., dim_n>>; the sample values, and so the
\* normalisation to uint8, do not change which image mode results
numpy_to_pil(arr, mode) ==
    LET ndim == Len(arr.val) - 1
        last == arr.val[Len(arr.val)]
    IN  IF ndim = 2 THEN convert_mode(PILImage("L"), mode)
        ELSE IF ndim = 3
             THEN IF last = "3" THEN convert_mode(PILImage("RGB"), mode)
                  ELSE IF last = "4" THEN convert_mode(PILImage("RGBA"), mode)
                  ELSE None
        ELSE None

\* Image.open raises on a file that is not an image
load_from_path(path, mode) ==
    IF path.val \notin ExistingPaths THEN None
    ELSE IF path.val \notin DecodablePaths THEN Raised
    ELSE convert_mode(PILImage(ModeOnDisk(path.val)), mode)

convert_to_pil_image(image_input, mode) ==
    IF image_input.type = "NoneType" THEN None
    ELSE IF image_input.type = "Image" THEN convert_mode(image_input, mode)
    ELSE IF image_input.type = "ndarray" THEN numpy_to_pil(image_input, mode)
    ELSE IF image_input.type = "str" THEN load_from_path(image_input, mode)
    ELSE None

----------------------------------------------------------------------------
(* utils/validator.py *)

required_metadata_fields == {"domain", "task_id", "source"}

\* validate_task_data without the whitespace check on the prompt
validate_task_data_no_strip(first_frame, prompt, final_frame, goal_text, md) ==
    IF first_frame.type = "NoneType" THEN FALSE
    ELSE IF ~Truthy(prompt) THEN FALSE
    ELSE IF final_frame.type = "NoneType" /\ ~Truthy(goal_text) THEN FALSE
    ELSE IF md.type = "NoneType" \/ DOMAIN md.items = {} THEN FALSE
    ELSE IF \E field \in required_metadata_fields : field \notin DOMAIN md.items
         THEN FALSE
    ELSE TRUE

\* `not metadata`: None or an empty dict
validate_task_data(first_frame, prompt, final_frame, goal_text, md) ==
    IF first_frame.type = "NoneType" THEN FALSE
    ELSE IF ~Truthy(prompt) \/ ~Truthy(Str(strip(prompt.val))) THEN FALSE
    ELSE IF final_frame.type = "NoneType" /\ ~Truthy(goal_text) THEN FALSE
    ELSE IF md.type = "NoneType" \/ DOMAIN md.items = {} THEN FALSE
    ELSE IF \E field \in required_metadata_fields : field \notin DOMAIN md.items
         THEN FALSE
    ELSE TRUE

\* filesystem entries
Dir(p) == [path |-> p, kind |-> "dir"]
File(p) == [path |-> p, kind |-> "file"]
exists(f, p) == \E e \in f : e.path = p
is_dir(f, p) == Dir(p) \in f

validate_task_directory(f, dir) ==
    IF ~exists(f, dir) \/ ~is_dir(f, dir) THEN FALSE
    ELSE IF ~exists(f, dir \o <<(<<"first_frame.png">>)>>) THEN FALSE
    ELSE IF ~exists(f, dir \o <<(<<"prompt.txt">>)>>) THEN FALSE
    ELSE IF ~exists(f, dir \o <<(<<"question_metadata.json">>)>>) THEN FALSE
    ELSE IF /\ ~exists(f, dir \o <<(<<"final_frame.png">>)>>)
            /\ ~exists(f, dir \o <<(<<"goal.txt">>)>>)
         THEN FALSE
    ELSE TRUE

----------------------------------------------------------------------------
(* pathlib and formatting helpers used by the converters *)

Min(a, b) == IF a < b THEN a ELSE b

DigitChars == <<"0", "1", "2", "3", "4", "5", "6", "7", "8", "9">>

RECURSIVE digits(_)
digits(n) ==
    IF n < 10 THEN <<DigitChars[n + 1]>>
    ELSE digits(n \div 10) \o <<DigitChars[(n % 10) + 1]>>

RECURSIVE zfill(_, _)
zfill(s, width) == IF Len(s) < width THEN zfill(<<"0">> \o s, width) ELSE s

\* f"{idx:05d}"
format_05d(n) == zfill(digits(n), 5)

\* path.mkdir(parents=True, exist_ok=True)
mkdir_parents(f, p) == f \cup {Dir(SubSeq(p, 1, k)) : k \in 0..Len(p)}

\* (dir / name).write_text(...), image.save(dir / name)
write_file(f, dir, name) == f \cup {File(dir \o <<(<<name>>)>>)}

\* names of the entries directly inside dir
listdir(f, dir) ==
    {e.path[Len(e.path)] : e \in {x \in f : /\ Len(x.path) = Len(dir) + 1
                                           /\ SubSeq(x.path, 1, Len(dir)) = dir}}

\* json.dumps raises TypeError on a value that is not JSON serializable
RECURSIVE json_serializable(_)
json_serializable(v) ==
    CASE v.type \in {"str", "NoneType"} -> TRUE
      [] v.type = "dict" -> \A k \in DOMAIN v.items : json_serializable(v.items[k])
      [] OTHER -> FALSE

----------------------------------------------------------------------------
(* scripts/download_dataset.py: the lenient converter *)

default_prompt == Str(<<"Solve this visual reasoning task.">>)
default_domain == Str(<<"videothinkbench">>)
source_name == Str(<<"video-think-bench/VideoThinkBench">>)

\* a task id that does not depend on the index
task_id_of_constant(split, i) == Str(<<"vtb_">> \o split \o <<"_">> \o format_05d(0))

\* f"vtb_{split}_{idx:05d}"
task_id_of(split, i) == Str(<<"vtb_">> \o split \o <<"_">> \o format_05d(i))

\* output_dir / f"{domain}_task" / task_id, relative to output_dir
task_dir_of(domain, task_id) == <<str(domain).val \o <<"_task">>, task_id.val>>

extra_excluded == {"image", "target_image", "question", "answer", "prompt"}

\* the dict comprehension of metadata["extra"]
extra_of(it) ==
    Dict([k \in {x \in DOMAIN it : /\ x \notin extra_excluded
                                  /\ it[x].type \notin {"Image", "bytes"}}
             |-> it[k]])

\* writing goal.txt whenever there is a goal text
write_goal_both(f, tdir, final_frame, goal_text) ==
    LET g == IF Truthy(final_frame) THEN write_file(f, tdir, "final_frame.png") ELSE f
    IN  IF Truthy(goal_text) THEN write_file(g, tdir, "goal.txt") ELSE g

\* final_frame.png if there is a final frame, else goal.txt if there is a text
write_goal(f, tdir, final_frame, goal_text) ==
    IF Truthy(final_frame) THEN write_file(f, tdir, "final_frame.png")
    ELSE IF Truthy(goal_text) THEN write_file(f, tdir, "goal.txt")
    ELSE f

\* process_sample creating the task directory before it validates
process_sample_mkdir_early(it, i, split, f) ==
    LET first_frame == convert_to_pil_image(Get(it, "image"), "RGB")
        prompt == Str(strip(str(Or(Or(Get(it, "question"), Get(it, "prompt")),
                                   default_prompt)).val))
        final_frame == convert_to_pil_image(Get(it, "target_image"), "RGB")
        goal_text == Or(Get(it, "answer"), Get(it, "target_text"))
        domain == Or(Or(Get(it, "task_type"), Get(it, "category")), default_domain)
        task_id == task_id_of(split, i)
        md == Dict([domain |-> domain,
                    task_id |-> task_id,
                    difficulty |-> Get(it, "difficulty"),
                    source |-> source_name,
                    split |-> Str(split),
                    extra |-> extra_of(it)])
        tdir == task_dir_of(domain, task_id)
        f1 == write_file(mkdir_parents(f, tdir), tdir, "first_frame.png")
        f2 == write_goal(f1, tdir, final_frame, goal_text)
        f3 == write_file(f2, tdir, "prompt.txt")
        f4 == write_file(f3, tdir, "question_metadata.json")
        early == [fs |-> f, metadata |-> None, task_dir |-> <<>>]
    IN  IF first_frame = Raised THEN [ret |-> "raised", out |-> "Traceback"] @@ early
        ELSE IF ~Truthy(first_frame)
             THEN [ret |-> "False", out |-> "Warning: Invalid first frame"] @@ early
        ELSE IF final_frame = Raised
             THEN [ret |-> "raised", out |-> "Traceback"] @@ early
        ELSE IF ~validate_task_data(first_frame, prompt, final_frame, goal_text, md)
             THEN [ret |-> "False", out |-> "Warning: Data validation failed",
                   fs |-> mkdir_parents(f, tdir), metadata |-> md, task_dir |-> <<>>]
        ELSE IF ~json_serializable(md)
             THEN [ret |-> "raised", out |-> "Traceback",
                   fs |-> f3, metadata |-> md, task_dir |-> tdir]
        ELSE [ret |-> "True", out |-> "",
              fs |-> f4, metadata |-> md, task_dir |-> tdir]

\* One call process_sample(item, idx, split, output_dir) on filesystem f.
\* ret is "True", "False" or "raised"; fs is the filesystem it leaves.
process_sample(it, i, split, f) ==
    LET first_frame == convert_to_pil_image(Get(it, "image"), "RGB")
        prompt == Str(strip(str(Or(Or(Get(it, "question"), Get(it, "prompt")),
                                   default_prompt)).val))
        final_frame == convert_to_pil_image(Get(it, "target_image"), "RGB")
        goal_text == Or(Get(it, "answer"), Get(it, "target_text"))
        domain == Or(Or(Get(it, "task_type"), Get(it, "category")), default_domain)
        task_id == task_id_of(split, i)
        md == Dict([domain |-> domain,
                    task_id |-> task_id,
                    difficulty |-> Get(it, "difficulty"),
                    source |-> source_name,
                    split |-> Str(split),
                    extra |-> extra_of(it)])
        tdir == task_dir_of(domain, task_id)
        f1 == write_file(mkdir_parents(f, tdir), tdir, "first_frame.png")
        f2 == write_goal(f1, tdir, final_frame, goal_text)
        f3 == write_file(f2, tdir, "prompt.txt")
        f4 == write_file(f3, tdir, "question_metadata.json")
        early == [fs |-> f, metadata |-> None, task_dir |-> <<>>]
    IN  IF first_frame = Raised THEN [ret |-> "raised", out |-> "Traceback"] @@ early
        ELSE IF ~Truthy(first_frame)
             THEN [ret |-> "False", out |-> "Warning: Invalid first frame"] @@ early
        ELSE IF final_frame = Raised
             THEN [ret |-> "raised", out |-> "Traceback"] @@ early
        ELSE IF ~validate_task_data(first_frame, prompt, final_frame, goal_text, md)
             THEN [ret |-> "False", out |-> "Warning: Data validation failed",
                   fs |-> f, metadata |-> md, task_dir |-> <<>>]
        ELSE IF ~json_serializable(md)
             THEN [ret |-> "raised", out |-> "Traceback",
                   fs |-> f3, metadata |-> md, task_dir |-> tdir]
        ELSE [ret |-> "True", out |-> "",
              fs |-> f4, metadata |-> md, task_dir |-> tdir]

----------------------------------------------------------------------------
(* scripts/process_dataset.py: the strict converter *)

\* One call of the strict process_sample; validate_task_data is called with
\* three positional arguments, so goal_text and metadata take their default None.
strict_process_sample(it, i, split, f) ==
    LET first_frame == convert_to_pil_image(Get(it, "image"), "RGB")
        prompt == Str(strip(str(Or(Or(Get(it, "question"), Get(it, "prompt")),
                                   default_prompt)).val))
        final_frame == convert_to_pil_image(Get(it, "target_image"), "RGB")
        domain == Or(Or(Get(it, "task_type"), Get(it, "category")), default_domain)
        task_id == task_id_of(split, i)
        tdir == task_dir_of(domain, task_id)
        f1 == write_file(mkdir_parents(f, tdir), tdir, "first_frame.png")
        f2 == write_file(f1, tdir, "final_frame.png")
        f3 == write_file(f2, tdir, "prompt.txt")
        early == [fs |-> f, metadata |-> None, task_dir |-> <<>>]
    IN  IF first_frame = Raised THEN [ret |-> "raised", out |-> "Traceback"] @@ early
        ELSE IF ~Truthy(first_frame)
             THEN [ret |-> "False", out |-> "Warning: Invalid first frame"] @@ early
        ELSE IF final_frame = Raised
             THEN [ret |-> "raised", out |-> "Traceback"] @@ early
        ELSE IF ~Truthy(final_frame)
             THEN [ret |-> "False", out |-> "Warning: Invalid final frame"] @@ early
        ELSE IF ~validate_task_data(first_frame, prompt, final_frame, None, None)
             THEN [ret |-> "False", out |-> "Warning: Data validation failed"] @@ early
        ELSE [ret |-> "True", out |-> "",
              fs |-> f3, metadata |-> None, task_dir |-> tdir]

\* the process_sample of the given script
sample(tool, it, i, split, f) ==
    IF tool = "process_dataset" THEN strict_process_sample(it, i, split, f)
    ELSE process_sample(it, i, split, f)

----------------------------------------------------------------------------
(* Upstream records the dataset may yield *)

RGB == PILImage("RGB")
Q == Str(<<"q">>)
A == Str(<<"a">>)

ImageInputs ==
    {None, RGB, PILImage("L"), Str(<<"gray.png">>), Str(<<"missing.png">>),
     Str(<<"corrupt.png">>), NdArray(<<"uint8", "4", "4", "3">>),
     NdArray(<<"uint8", "4", "4", "2">>)}

\* every kind of image field, with a text goal
ImageRecords ==
    {("image" :> i) @@ ("question" :> Q) @@ ("answer" :> A) : i \in ImageInputs}

\* every kind of target image, with and without a text goal
TargetRecords ==
    {("image" :> RGB) @@ ("target_image" :> t) @@ ("question" :> Q) @@ g :
        t \in {None, RGB, Str(<<"gray.png">>), Str(<<"corrupt.png">>)},
        g \in {<<>>, ("answer" :> A), ("answer" :> Str(<<>>)),
               ("target_text" :> Str(<<"t", " ">>)),
               ("answer" :> None) @@ ("target_text" :> Str(<<"t">>))}}

\* every way of giving the instruction
PromptRecords ==
    {("image" :> RGB) @@ ("answer" :> A) @@ q @@ p :
        q \in {<<>>, ("question" :> None), ("question" :> Str(<<>>)),
               ("question" :> Str(<<" ">>)), ("question" :> Str(<<" ", "q", "\n">>))},
        p \in {<<>>, ("prompt" :> Str(<<"p", " ">>))}}

\* every way of giving the domain, and the fields that are not consumed
ExtraRecords ==
    {("image" :> RGB) @@ ("target_image" :> RGB) @@ ("prompt" :> Q) @@ d @@ x :
        d \in {<<>>, ("task_type" :> Str(<<"maze">>)), ("category" :> Str(<<"cat">>)),
               ("task_type" :> Str(<<"maze">>)) @@ ("category" :> Str(<<"cat">>))},
        x \in {<<>>,
               ("difficulty" :> Str(<<"easy">>)) @@ ("hint" :> Str(<<"h">>)),
               ("thumbnail" :> Bytes) @@ ("preview" :> RGB),
               ("tags" :> PySet)}}

Dataset == ImageRecords \cup TargetRecords \cup PromptRecords \cup ExtraRecords

----------------------------------------------------------------------------
(* Command line of the conversion tools *)

DatasetNames == {"videothinkbench", "VideoThinkBench", "imagenet"}

\* str.lower() on the names above
lower(name) == IF name = "VideoThinkBench" THEN "videothinkbench" ELSE name

NoLimit == [given |-> FALSE, n |-> 0]
Limit(k) == [given |-> TRUE, n |-> k]
Limits == {NoLimit} \cup {Limit(k) : k \in 0..MaxLimit}

Splits == {<<"test">>}

NoArgs == [tool |-> "none"]

----------------------------------------------------------------------------
(* State shared by all tools *)

IdleConverter ==
    /\ loaded = 0 /\ dataset = 0 /\ idx = 0 /\ successful = 0
    /\ item = <<>> /\ ret = "-" /\ metadata = None /\ task_dir = <<>>
    /\ calls = <<>>

IdleTransfer ==
    s3 = {} /\ files = <<>> /\ uploaded = 0 /\ failed = 0 /\ downloaded = 0

IdleValidate == vin = <<>> /\ vout = "-"

----------------------------------------------------------------------------
(* main and the batch loop; the two converter scripts share this code *)

Init ==
    /\ pc = "main"
    /\ args = NoArgs
    /\ fs \in {{}, {Dir(<<>>)}}
    /\ stdout = <<"", 0, 0>>
    /\ IdleConverter /\ IdleTransfer /\ IdleValidate

\* main(): parse the arguments, create the output directory, dispatch
main(tool) ==
    /\ pc = "main"
    /\ \E name \in DatasetNames, split \in Splits, lim \in Limits :
          /\ args' = [tool |-> tool, dataset |-> name, split |-> split, limit |-> lim]
          /\ fs' = mkdir_parents(fs, <<>>)
          /\ IF lower(name) = "videothinkbench"
             THEN pc' = "download" /\ UNCHANGED stdout
             ELSE pc' = "exit" /\ stdout' = <<"Error: Unknown dataset", 0, 0>>
    /\ UNCHANGED <<converterVars, transferVars, validateVars>>

\* download_videothinkbench up to the loop: load_dataset and the select()
load(tool) ==
    /\ pc = "download"
    /\ args.tool = tool
    /\ \E n \in 0..MaxLen :
          /\ loaded' = n
          /\ dataset' = IF args.limit.given /\ args.limit.n # 0
                        THEN Min(args.limit.n, n)
                        ELSE n
    /\ idx' = 0
    /\ successful' = 0
    /\ stdout' = <<"Processing samples", dataset', 0>>
    /\ pc' = "loop"
    /\ UNCHANGED <<args, fs, item, ret, metadata, task_dir, calls,
                   transferVars, validateVars>>

\* one iteration of the loop over enumerate(dataset)
iterate(tool) ==
    /\ pc = "loop"
    /\ args.tool = tool
    /\ idx < dataset
    /\ \E it \in Dataset :
          LET r == sample(tool, it, idx, args.split, fs)
          IN  /\ item' = it
              /\ ret' = r.ret
              /\ fs' = r.fs
              /\ metadata' = r.metadata
              /\ task_dir' = r.task_dir
              /\ IF r.ret = "raised"
                 THEN /\ pc' = "crashed"
                      /\ stdout' = <<r.out, idx, 0>>
                      /\ UNCHANGED <<idx, successful>>
                 ELSE /\ pc' = "loop"
                      /\ idx' = idx + 1
                      /\ successful' = IF r.ret = "True" THEN successful + 1
                                       ELSE successful
                      /\ stdout' = IF r.ret = "False" THEN <<r.out, idx, 0>>
                                   ELSE IF (idx + 1) % 10 = 0
                                        THEN <<"Processed", idx + 1, dataset>>
                                        ELSE stdout
    /\ UNCHANGED <<args, loaded, dataset, calls, transferVars, validateVars>>

\* the summary line and the return of download_videothinkbench
finish(tool) ==
    /\ pc = "loop"
    /\ args.tool = tool
    /\ idx = dataset
    /\ stdout' = <<"Successfully converted", successful, dataset>>
    /\ pc' = "exit"
    /\ UNCHANGED <<args, fs, converterVars, transferVars, validateVars>>

Next ==
    \/ main("download_dataset")
    \/ load("download_dataset")
    \/ iterate("download_dataset")
    \/ finish("download_dataset")

Spec == Init /\ [][Next]_vars

NextStrict ==
    \/ main("process_dataset")
    \/ load("process_dataset")
    \/ iterate("process_dataset")
    \/ finish("process_dataset")

SpecStrict == Init /\ [][NextStrict]_vars

\* process_sample called directly, any record and any index, on one output root
InitCalls ==
    /\ pc = "call"
    /\ args = NoArgs
    /\ fs = {Dir(<<>>)}
    /\ stdout = <<"", 0, 0>>
    /\ IdleConverter /\ IdleTransfer /\ IdleValidate

call_process_sample ==
    /\ pc = "call"
    /\ Len(calls) < MaxCalls
    /\ \E it \in Dataset, i \in 0..MaxIdx, split \in Splits :
          LET r == process_sample(it, i, split, fs)
          IN  /\ item' = it
              /\ idx' = i
              /\ ret' = r.ret
              /\ fs' = r.fs
              /\ metadata' = r.metadata
              /\ task_dir' = r.task_dir
              /\ calls' = Append(calls, r.task_dir)
              /\ stdout' = <<r.out, i, 0>>
    /\ UNCHANGED <<pc, args, loaded, dataset, successful, transferVars, validateVars>>

NextCalls == call_process_sample

SpecCalls == InitCalls /\ [][NextCalls]_vars

----------------------------------------------------------------------------
(* validate_task_data called on its own *)

RECURSIVE StringsUpTo(_)
StringsUpTo(n) ==
    IF n = 0 THEN {<<>>}
    ELSE LET shorter == StringsUpTo(n - 1)
         IN  shorter \cup {Append(w, c) : w \in shorter, c \in {" ", "\n", "a"}}

MetadataInputs ==
    {None} \cup
    {Dict([k \in keys |-> Str(<<"v">>)]) :
        keys \in SUBSET {"domain", "task_id", "source", "split"}}

InitValidate ==
    /\ pc = "validate"
    /\ args = NoArgs
    /\ fs = {}
    /\ stdout = <<"", 0, 0>>
    /\ vin \in [first_frame : {None, RGB},
                prompt : {None} \cup {Str(w) : w \in StringsUpTo(MaxPromptLen)},
                final_frame : {None, RGB},
                goal_text : {None, Str(<<>>), Str(<<" ">>), Str(<<"g">>)},
                metadata : MetadataInputs]
    /\ vout = "-"
    /\ IdleConverter /\ IdleTransfer

call_validate_task_data ==
    /\ pc = "validate"
    /\ vout' = IF validate_task_data(vin.first_frame, vin.prompt, vin.final_frame,
                                     vin.goal_text, vin.metadata)
               THEN "True" ELSE "False"
    /\ pc' = "validated"
    /\ UNCHANGED <<args, fs, stdout, vin, converterVars, transferVars>>

NextValidate == call_validate_task_data

SpecValidate == InitValidate /\ [][NextValidate]_vars

\* C4: validate_task_data returns True exactly when the first frame is
\* present, the prompt has a character that is not whitespace, a final frame
\* or a non-empty goal text is present, and metadata is present with the keys
\* domain, task_id and source; otherwise it returns False.
C4_ValidateTaskDataIffAllRules ==
    pc = "validated" =>
        /\ vout \in {"True", "False"}
        /\ vout = "True" <=>
              /\ vin.first_frame.type # "NoneType"
              /\ \E k \in DOMAIN vin.prompt.val : vin.prompt.val[k] \notin Whitespace
              /\ \/ vin.final_frame.type # "NoneType"
                 \/ (vin.goal_text.type = "str" /\ Len(vin.goal_text.val) > 0)
              /\ vin.metadata.type = "dict"
              /\ {"domain", "task_id", "source"} \subseteq DOMAIN vin.metadata.items

\* accepted with a text goal only; the prompt carries surrounding whitespace
C4_Witness ==
    /\ pc = "validated" /\ vout = "True"
    /\ vin.final_frame = None /\ vin.goal_text = Str(<<"g">>)
    /\ vin.prompt = Str(<<" ", "a">>)

----------------------------------------------------------------------------
(* utils/upload_to_s3.py: the transfer tool *)

\* A file name is <<stem, suffix>> or <<stem>>; Path.suffix is the last token
suffix(path) ==
    LET name == path[Len(path)]
    IN  IF Len(name) > 1 THEN name[Len(name)] ELSE ""

\* str.lower() on the suffixes that occur
lower_suffix(x) == IF x = ".PNG" THEN ".png" ELSE x

get_content_type(file_path) ==
    LET extension == lower_suffix(suffix(file_path))
    IN  CASE extension = ".png" -> "image/png"
          [] extension = ".jpg" -> "image/jpeg"
          [] extension = ".jpeg" -> "image/jpeg"
          [] extension = ".json" -> "application/json"
          [] extension = ".txt" -> "text/plain"
          [] extension = ".mp4" -> "video/mp4"
          [] OTHER -> "application/octet-stream"

\* str(relative_path): the components joined by "/"
RECURSIVE join(_)
join(path) ==
    IF Len(path) = 0 THEN <<>>
    ELSE IF Len(path) = 1 THEN path[1]
    ELSE path[1] \o <<"/">> \o join(Tail(path))

\* .replace("\\", "/")
replace_backslash(k) == [n \in DOMAIN k |-> IF k[n] = "\\" THEN "/" ELSE k[n]]

\* f"{s3_prefix}{relative_path}".replace("\\", "/")
s3_key_of(s3_prefix, relative_path) == replace_backslash(s3_prefix \o join(relative_path))

\* s3_client.upload_file raises when the transfer fails
upload_file_to_s3(file_path, s3_key, transfer_ok, store) ==
    IF transfer_ok
    THEN [ret |-> "True",
          s3 |-> {o \in store : o.key # s3_key}
                 \cup {[key |-> s3_key, content_type |-> get_content_type(file_path)]}]
    ELSE [ret |-> "raised", s3 |-> store]

\* s3_key.replace(s3_prefix, "", 1) on a key listed under s3_prefix
remove_prefix(k, s3_prefix) ==
    IF Len(s3_prefix) > 0 /\ Len(k) >= Len(s3_prefix)
       /\ SubSeq(k, 1, Len(s3_prefix)) = s3_prefix
    THEN SubSeq(k, Len(s3_prefix) + 1, Len(k))
    ELSE k

RECURSIVE lstrip_slash(_)
lstrip_slash(k) == IF k # <<>> /\ Head(k) = "/" THEN lstrip_slash(Tail(k)) ELSE k

\* local_dir / relative_path: the components between the "/"
RECURSIVE split_path(_, _)
split_path(k, current) ==
    IF k = <<>> THEN (IF current = <<>> THEN <<>> ELSE <<current>>)
    ELSE IF Head(k) = "/"
         THEN (IF current = <<>> THEN <<>> ELSE <<current>>) \o split_path(Tail(k), <<>>)
    ELSE split_path(Tail(k), Append(current, Head(k)))

starts_with(k, s3_prefix) ==
    Len(k) >= Len(s3_prefix) /\ SubSeq(k, 1, Len(s3_prefix)) = s3_prefix

\* files that may lie under the local directory
LocalFileList ==
    << << <<"maze_task">>, <<"vtb_test_00000">>, <<"first_frame", ".png">> >>,
       << <<"maze_task">>, <<"vtb_test_00000">>, <<"prompt", ".txt">> >>,
       << <<"README">> >>,
       << <<"maze_task">>, <<"vtb_test_00000">>, <<"question_metadata", ".json">> >>,
       << <<"clip", ".mp4">> >> >>

LocalFiles == {LocalFileList[n] : n \in 1..Min(MaxFiles, Len(LocalFileList))}

Tree(S) ==
    {Dir(<<>>)} \cup
    UNION {mkdir_parents({}, SubSeq(p, 1, Len(p) - 1)) \cup {File(p)} : p \in S}

Prefixes == {<<>>, <<"datasets/">>}

RemoteObjects ==
    {[key |-> s3_key_of(<<"datasets/">>, LocalFileList[1]), content_type |-> "image/png"],
     [key |-> s3_key_of(<<>>, LocalFileList[3]), content_type |-> "text/plain"]}

\* every order in which a listing may return the members of S
Orders(S) ==
    {q \in [1..Cardinality(S) -> S] : \A m, n \in DOMAIN q : m # n => q[m] # q[n]}

regular_files(f) == {e.path : e \in {x \in f : x.kind = "file"}}

InitTransfer ==
    /\ pc = "transfer_main"
    /\ args = NoArgs
    /\ fs \in {{}} \cup {Tree(S) : S \in SUBSET LocalFiles}
    /\ s3 \in SUBSET RemoteObjects
    /\ files = <<>> /\ uploaded = 0 /\ failed = 0 /\ downloaded = 0
    /\ stdout = <<"", 0, 0>>
    /\ IdleConverter /\ IdleValidate

\* main(): parse the arguments, check them, dispatch
transfer_main ==
    /\ pc = "transfer_main"
    /\ \E action \in {"upload", "download"}, input \in BOOLEAN, output \in BOOLEAN,
          prefix \in Prefixes :
          /\ args' = [tool |-> "upload_to_s3", action |-> action, input |-> input,
                      output |-> output, prefix |-> prefix]
          /\ IF action = "upload"
             THEN IF ~input
                  THEN /\ stdout' = <<"Error: --input required for upload", 0, 0>>
                       /\ pc' = "exit"
                       /\ UNCHANGED <<fs, files>>
                  ELSE IF ~exists(fs, <<>>)
                  THEN /\ stdout' = <<"Error: Input directory does not exist", 0, 0>>
                       /\ pc' = "exit"
                       /\ UNCHANGED <<fs, files>>
                  ELSE /\ files' \in Orders(regular_files(fs))
                       /\ stdout' = <<"Found files to upload", Len(files'), 0>>
                       /\ pc' = "upload"
                       /\ UNCHANGED fs
             ELSE IF ~output
                  THEN /\ stdout' = <<"Error: --output required for download", 0, 0>>
                       /\ pc' = "exit"
                       /\ UNCHANGED <<fs, files>>
                  ELSE /\ fs' = mkdir_parents(fs, <<>>)
                       /\ files' \in Orders({o.key : o \in {x \in s3 :
                                                starts_with(x.key, prefix)}})
                       /\ stdout' = <<"Found files to download", Len(files'), 0>>
                       /\ pc' = "download"
    /\ UNCHANGED <<s3, uploaded, failed, downloaded, converterVars, validateVars>>

\* one iteration of the loop of upload_directory_to_s3
upload_next ==
    /\ pc = "upload"
    /\ files # <<>>
    /\ \E transfer_ok \in BOOLEAN :
          LET file_path == Head(files)
              s3_key == s3_key_of(args.prefix, file_path)
              r == upload_file_to_s3(file_path, s3_key, transfer_ok, s3)
          IN  /\ s3' = r.s3
              /\ IF r.ret = "raised"
                 THEN /\ pc' = "crashed"
                      /\ stdout' = <<"Traceback", 0, 0>>
                      /\ UNCHANGED <<files, uploaded, failed>>
                 ELSE IF r.ret = "True"
                 THEN /\ uploaded' = uploaded + 1
                      /\ stdout' = IF uploaded' % 10 = 0
                                   THEN <<"Uploaded", uploaded', Len(files)>>
                                   ELSE stdout
                      /\ files' = Tail(files)
                      /\ UNCHANGED <<pc, failed>>
                 ELSE /\ failed' = failed + 1
                      /\ stdout' = <<"Failed to upload", 0, 0>>
                      /\ files' = Tail(files)
                      /\ UNCHANGED <<pc, uploaded>>
    /\ UNCHANGED <<args, fs, downloaded, converterVars, validateVars>>

\* the summary line and the return of upload_directory_to_s3
upload_finish ==
    /\ pc = "upload"
    /\ files = <<>>
    /\ stdout' = <<"Upload complete", uploaded, failed>>
    /\ pc' = "exit"
    /\ UNCHANGED <<args, fs, transferVars, converterVars, validateVars>>

\* one iteration of the loop of download_from_s3
download_next ==
    /\ pc = "download"
    /\ files # <<>>
    /\ \E transfer_ok \in BOOLEAN :
          LET s3_key == Head(files)
              relative_path == lstrip_slash(remove_prefix(s3_key, args.prefix))
              local_path == split_path(relative_path, <<>>)
              made == mkdir_parents(fs, SubSeq(local_path, 1, Len(local_path) - 1))
          IN  IF transfer_ok
              THEN /\ fs' = made \cup {File(local_path)}
                   /\ downloaded' = downloaded + 1
                   /\ files' = Tail(files)
                   /\ stdout' = IF downloaded' % 10 = 0
                                THEN <<"Downloaded", downloaded', Len(files)>>
                                ELSE stdout
                   /\ UNCHANGED pc
              ELSE /\ fs' = made
                   /\ pc' = "crashed"
                   /\ stdout' = <<"Traceback", 0, 0>>
                   /\ UNCHANGED <<files, downloaded>>
    /\ UNCHANGED <<args, s3, uploaded, failed, converterVars, validateVars>>

\* the summary line and the return of download_from_s3
download_finish ==
    /\ pc = "download"
    /\ files = <<>>
    /\ stdout' = <<"Download complete", downloaded, 0>>
    /\ pc' = "exit"
    /\ UNCHANGED <<args, fs, transferVars, converterVars, validateVars>>

NextTransfer ==
    \/ transfer_main
    \/ upload_next
    \/ upload_finish
    \/ download_next
    \/ download_finish

SpecTransfer == InitTransfer /\ [][NextTransfer]_vars

\* C3: an upload is attempted for every regular file even when some uploads
\* fail, and upload_directory_to_s3 returns (uploaded, failed) with
\* uploaded + failed equal to the number of regular files found.
C3_UploadFailuresAreCounted ==
    (args.tool = "upload_to_s3" /\ args.action = "upload") =>
        /\ pc # "crashed"
        /\ (pc = "exit" /\ stdout[1] = "Upload complete") =>
              /\ files = <<>>
              /\ uploaded + failed = Cardinality(regular_files(fs))

----------------------------------------------------------------------------
(* Properties of the lenient converter, checked under Spec *)

Summary == pc = "exit" /\ stdout[1] = "Successfully converted"

\* C2: no record's failure aborts the batch: the loop never ends in an
\* unhandled error, and a run that converts ends with every record attempted
\* and the summary "successful out of attempted" printed.
C2_RecordFailureNeverAborts ==
    /\ pc # "crashed"
    /\ (pc = "exit" /\ lower(args.dataset) = "videothinkbench")
          => /\ idx = dataset
             /\ stdout = <<"Successfully converted", successful, dataset>>

\* C5: a process_sample call of the loop that returns False leaves the
\* filesystem exactly as it found it.
C5_SkippedRecordWritesNothing ==
    [][(pc = "loop" /\ idx' = idx + 1 /\ ret' = "False") => fs' = fs]_vars

\* a record rejected by validation after an earlier record was written
C5_Witness ==
    /\ pc = "loop" /\ ret = "False" /\ metadata.type = "dict"
    /\ successful = 1 /\ idx = 2
    /\ \E e \in fs : Len(e.path) = 3

ExpectedCount == IF args.limit.given THEN Min(args.limit.n, loaded) ELSE loaded

\* C6: with a limit n >= 0 exactly the first min(n, L) records are processed,
\* with indices 0 .. min(n, L) - 1; without a limit all L records are.
C6_LimitSelectsLeadingRecords ==
    /\ pc \in {"loop", "crashed"} => dataset = ExpectedCount /\ idx <= dataset
    /\ Summary => dataset = ExpectedCount /\ idx = dataset

\* C7: a run of main() that ends with the unknown-dataset error leaves the
\* filesystem as it was before the call.
C7_ConfigErrorBeforeAnyIO ==
    [][(pc = "main" /\ stdout'[1] = "Error: Unknown dataset") => fs' = fs]_vars

consumed_keys ==
    {"image", "target_image", "question", "prompt", "answer", "target_text",
     "task_type", "category", "difficulty"}

\* C8: the keys of metadata["extra"] are exactly the record's keys that are
\* not consumed by field extraction and do not hold an image or bytes.
C8_ExtraHoldsUnconsumedKeys ==
    metadata.type = "dict" =>
        DOMAIN metadata.items.extra.items =
            {k \in DOMAIN item : /\ k \notin consumed_keys
                                 /\ item[k].type \notin {"Image", "bytes"}}

TaskDirs(f) == {e.path : e \in {x \in f : x.kind = "dir" /\ Len(x.path) = 2}}

\* C10: the directory written by a process_sample call that returned True
\* passes validate_task_directory, and the number of such directories equals
\* the successful count of the run.
C10_WriterAndDirectoryValidatorAgree ==
    /\ ret = "True" => validate_task_directory(fs, task_dir)
    /\ Cardinality({d \in TaskDirs(fs) : validate_task_directory(fs, d)}) = successful

\* a finished run that converted two records
C10_Witness == Summary /\ successful = 2 /\ ret = "True"

----------------------------------------------------------------------------
(* Properties of the strict converter, checked under SpecStrict *)

\* C1: a strict process_sample call on a record whose image and target_image
\* both normalize to an image, with a prompt that is non-empty after trimming
\* or no prompt at all, returns True and leaves exactly first_frame.png,
\* final_frame.png and prompt.txt (no question_metadata.json) in the task
\* directory.
C1_StrictWritesTaskDirectory ==
    LET raw == Or(Get(item, "question"), Get(item, "prompt"))
    IN  (/\ ret # "-"
         /\ convert_to_pil_image(Get(item, "image"), "RGB").type = "Image"
         /\ convert_to_pil_image(Get(item, "target_image"), "RGB").type = "Image"
         /\ (~Truthy(raw) \/ strip(str(raw).val) # <<>>))
        => /\ ret = "True"
           /\ listdir(fs, task_dir) =
                 {<<"first_frame.png">>, <<"final_frame.png">>, <<"prompt.txt">>}

----------------------------------------------------------------------------
(* Properties of direct process_sample calls, checked under SpecCalls *)

GoalFiles(f, d) == listdir(f, d) \cap {<<"final_frame.png">>, <<"goal.txt">>}

ExactlyOneGoalFile == \A d \in TaskDirs(fs) : Cardinality(GoalFiles(fs, d)) = 1

FinalFrameIffTargetImage ==
    ret = "True" =>
        (<<"final_frame.png">> \in listdir(fs, task_dir)
            <=> convert_to_pil_image(Get(item, "target_image"), "RGB").type = "Image")

\* no two calls wrote the same task directory
EachDirWrittenOnce ==
    \A m, n \in DOMAIN calls : (m # n /\ calls[m] # <<>>) => calls[m] # calls[n]

====
